---- MODULE Spec2Model ----
(***************************************************************************)
(* Model of browser_use/llm/logger_wrapper.py: LLMLoggerWrapper.ainvoke,   *)
(* the sanitising / serialising helpers it uses, the request fingerprint   *)
(* and the markdown log write.                                             *)
(*                                                                         *)
(* Python values are tagged records [t, v]:                                *)
(*   "none"  v = <<>>                 None                                 *)
(*   "str"   v = tuple of strings     a scalar (text pieces, in order)     *)
(*   "list"  v = tuple of values      a list                               *)
(*   "dict"  v = tuple of <<k, val>>  a dict, in insertion order           *)
(*   "obj"   v = <<addr, cls, data>>  an object at address addr; cls is    *)
(*           "pydantic" (has model_dump, which returns data) or "plain"    *)
(*           (no model_dump / dict, default object repr)                   *)
(***************************************************************************)
EXTENDS Integers, Sequences, FiniteSets, TLC

\* ------------------------------------------------------------------ bounds
\* the clock runs from 0 to MaxTime milliseconds
MaxTime == 1

\* ------------------------------------------------------------ python values
NoneVal == [t |-> "none", v |-> <<>>]
Scalar(s) == [t |-> "str", v |-> <<s>>]
List(items) == [t |-> "list", v |-> items]
Dict(pairs) == [t |-> "dict", v |-> pairs]
Obj(addr, cls, data) == [t |-> "obj", v |-> <<addr, cls, data>>]

\* str(obj): a str is itself; an object without __str__ prints its address
PyStr(obj) ==
    IF obj.t = "str" THEN obj
    ELSE IF obj.t = "none" THEN Scalar("None")
    ELSE IF obj.t = "obj" THEN [t |-> "str", v |-> <<"<object at>", obj.v[1]>>]
    ELSE [t |-> "str", v |-> <<"<repr>", obj.t>>]

\* hasattr(obj, "model_dump") / hasattr(obj, "dict")
HasDump(obj) == obj.t = "obj" /\ obj.v[2] = "pydantic"

\* obj.model_dump()
ModelDump(obj) == obj.v[3]

\* dict.get(key): the value stored under key, None when absent
DictGet(pairs, key) ==
    IF \E i \in 1..Len(pairs) : pairs[i][1] = key
    THEN pairs[CHOOSE i \in 1..Len(pairs) : pairs[i][1] = key][2]
    ELSE NoneVal

RECURSIVE _strip_image_urls(_)
_strip_image_urls(obj) ==
    IF obj.t = "dict" THEN
        IF DictGet(obj.v, "type") = Scalar("image_url")
        THEN Dict(SelectSeq(obj.v, LAMBDA p : p[1] = "type"))
        ELSE LET kept == SelectSeq(obj.v, LAMBDA p : p[1] # "image_url")
             IN Dict([i \in 1..Len(kept) |-> <<kept[i][1], _strip_image_urls(kept[i][2])>>])
    ELSE IF obj.t = "list" THEN
        List([i \in 1..Len(obj.v) |-> _strip_image_urls(obj.v[i])])
    ELSE obj

RECURSIVE _to_jsonable(_)
_to_jsonable(obj) ==
    IF HasDump(obj) THEN ModelDump(obj)
    ELSE IF obj.t \in {"str", "none"} THEN obj
    ELSE IF obj.t = "list" THEN List([i \in 1..Len(obj.v) |-> _to_jsonable(obj.v[i])])
    ELSE IF obj.t = "dict" THEN
        Dict([i \in 1..Len(obj.v) |-> <<obj.v[i][1], _to_jsonable(obj.v[i][2])>>])
    ELSE PyStr(obj)

_serialize_messages(messages) ==
    IF messages.t = "list" THEN
        List([i \in 1..Len(messages.v) |->
            LET m == messages.v[i]
                data == IF HasDump(m) THEN ModelDump(m) ELSE m
            IN _strip_image_urls(_to_jsonable(data))])
    ELSE _strip_image_urls(_to_jsonable(messages))

\* ------------------------------------------------- json.dumps(sort_keys=True)
\* the mapping keys of the model, in the order Python sorts them
KeyOrder == <<"content", "detail", "image_url", "meta", "role", "text", "type", "url">>

KeyRank(k) == CHOOSE i \in 1..Len(KeyOrder) : KeyOrder[i] = k

RECURSIVE InsertByKey(_, _)
InsertByKey(p, sorted) ==
    IF sorted = <<>> THEN <<p>>
    ELSE IF KeyRank(p[1]) < KeyRank(Head(sorted)[1]) THEN <<p>> \o sorted
    ELSE <<Head(sorted)>> \o InsertByKey(p, Tail(sorted))

RECURSIVE SortPairs(_)
SortPairs(pairs) ==
    IF pairs = <<>> THEN <<>>
    ELSE InsertByKey(Head(pairs), SortPairs(Tail(pairs)))

\* the text json.dumps(..., sort_keys=True, default=str) produces, as the tree
\* it prints: every mapping in key order, anything not JSON through str
RECURSIVE DumpsSorted(_)
DumpsSorted(obj) ==
    IF obj.t = "dict" THEN
        LET s == SortPairs(obj.v)
        IN Dict([i \in 1..Len(s) |-> <<s[i][1], DumpsSorted(s[i][2])>>])
    ELSE IF obj.t = "list" THEN List([i \in 1..Len(obj.v) |-> DumpsSorted(obj.v[i])])
    ELSE IF obj.t = "obj" THEN PyStr(obj)
    ELSE obj

\* the text json.dumps(..., indent=2, default=str) produces: insertion order kept
RECURSIVE Dumps(_)
Dumps(obj) ==
    IF obj.t = "dict" THEN
        Dict([i \in 1..Len(obj.v) |-> <<obj.v[i][1], Dumps(obj.v[i][2])>>])
    ELSE IF obj.t = "list" THEN List([i \in 1..Len(obj.v) |-> Dumps(obj.v[i])])
    ELSE IF obj.t = "obj" THEN PyStr(obj)
    ELSE obj

\* ------------------------------------------------------------------ inputs
\* two overlapping calls of ainvoke on one wrapper: every property below is
\* about one call or about a pair of calls
Calls == {1, 2}

\* self.model_name of the wrapped client
model_name == "gpt-test"

TextPart == Dict(<< <<"type", Scalar("text")>>, <<"text", Scalar("hello")>> >>)

ImagePart(url) ==
    Dict(<< <<"type", Scalar("image_url")>>,
            <<"image_url", Dict(<< <<"url", Scalar(url)>>, <<"detail", Scalar("low")>> >>)>> >>)

UserDict == Dict(<< <<"role", Scalar("user")>>, <<"content", Scalar("hello")>> >>)

\* a message with a text part, an image part and an image_url field deeper down
ImageMessage(url) ==
    Dict(<< <<"role", Scalar("user")>>,
            <<"content", List(<<TextPart, ImagePart(url)>>)>>,
            <<"meta", List(<< Dict(<< <<"image_url", Scalar(url)>>,
                                      <<"detail", Scalar("low")>> >>) >>)>> >>)

\* the arguments of ainvoke, <<messages, output_format>>: what a caller may pass
RequestChoices ==
    << <<List(<<UserDict>>), "none">>,
       <<List(<< Dict(<< <<"content", Scalar("hello")>>, <<"role", Scalar("user")>> >>) >>),
         "AgentOutput">>,
       <<List(<< Obj("0x3", "pydantic", ImageMessage("data:A")) >>), "none">>,
       <<List(<< Obj("0x4", "pydantic", ImageMessage("data:B")) >>), "AgentOutput">>,
       <<List(<< Obj("0x1", "plain", UserDict) >>), "none">>,
       <<List(<< Obj("0x2", "plain", UserDict) >>), "none">> >>

\* what the inner client may return: a ChatInvokeCompletion (completion, usage)
ResultChoices ==
    << [completion |-> Scalar("hi there"), usage |-> NoneVal],
       [completion |-> Obj("0x9", "pydantic",
                           Dict(<< <<"text", Scalar("hi there")>>,
                                   <<"image_url", Scalar("data:C")>> >>)),
        usage |-> Obj("0x8", "pydantic", Dict(<< <<"total_tokens", Scalar("12")>> >>))] >>

\* what the inner client may raise as an Exception: str(e) of each
ErrorChoices == << "rate limited" >>

\* what one pass through _write_markdown_log(self._log_dir_provider(), ...) does
LogOutcomes == {"ok", "provider_raises", "write_fails"}

\* the directories the log_dir_provider may return
Dirs == {"session1", "session2"}

\* ------------------------------------------------------------- fingerprint
\* the bytes _hash_request hashes: kwargs is always {} (ainvoke passes req["kwargs"])
HashPayload(model, messages) ==
    <<model, DumpsSorted(_serialize_messages(messages))>>

\* hashlib.sha256(bs).hexdigest(), taken as collision free on the payloads of
\* the model: equal bytes give equal digests, different bytes different ones
Sha256(bs) ==
    CHOOSE i \in 1..Len(RequestChoices) : HashPayload(bs[1], RequestChoices[i][1]) = bs

_hash_request(model, messages) == Sha256(HashPayload(model, messages))

\* ------------------------------------------------------------------- state
VARIABLES
    pc,             \* per call: "idle", "awaiting" (inside await self._inner.ainvoke), "done"
    given,          \* per call: <<messages, output_format>> as the caller built them
    messages,       \* per call: the caller's message structure as it is now
    innerArgs,      \* per call: <<messages, output_format>> the inner client received
    start,          \* per call: start = _now_iso()
    cache_key,      \* per call: cache_key = _hash_request(...)
    innerOutcome,   \* per call: how self._inner.ainvoke ended
    callerOutcome,  \* per call: how ainvoke ended for its caller
    providerLog,    \* per call: what each invocation of self._log_dir_provider gave
    writes,         \* per call: the artifacts path.write_text wrote, in order
    files,          \* the log directories: a set of [name, content], one per name
    now,            \* the UTC clock, in milliseconds
    logDir          \* the directory the log_dir_provider returns at present

vars == <<pc, given, messages, innerArgs, start, cache_key, innerOutcome,
          callerOutcome, providerLog, writes, files, now, logDir>>

\* outcomes: kind "none" (not ended), "ret" (val = index of the result),
\* "exc" (an Exception of the inner client, val = index of the error),
\* "cancel" (a BaseException that is no Exception: CancelledError),
\* "logexc" (an Exception of the logging path: 1 provider, 2 mkdir/write_text)
Outcome(kind, val) == [kind |-> kind, val |-> val]

NoOutcome == Outcome("none", 0)

\* the exception a failed pass through the logging path raises
LogError(o) == IF o = "provider_raises" THEN Outcome("logexc", 1) ELSE Outcome("logexc", 2)

\* str(e)
ErrStr(x) ==
    IF x.kind = "exc" THEN Scalar(ErrorChoices[x.val])
    ELSE IF x.kind = "logexc" THEN
        (IF x.val = 1 THEN Scalar("provider failed") ELSE Scalar("[Errno 13] Permission denied"))
    ELSE Scalar("")

\* a handler written as except BaseException: it would catch cancellation too
CaughtAll(x) == x.kind \in {"exc", "logexc", "cancel"}

\* except Exception as e: what the handler of ainvoke catches
Caught(x) == x.kind \in {"exc", "logexc"}

\* helpers that stripped and converted in place would leave the caller the
\* sanitized structure
MessagesAfterSerializeStripped(m) == _serialize_messages(m)

\* what the helpers leave of the structure they were given: they build new
\* lists and dicts (clean = {}, comprehensions) and assign nothing into obj
MessagesAfterSerialize(m) == m

\* path = log_dir / f"{ts}-{model}-{short}.md", short = cache_key[:8]
FileName(dir, ts, model, key) == [dir |-> dir, ts |-> ts, model |-> model, short |-> key]

\* the text _write_markdown_log assembles: header, request block, response block
Artifact(key, model, msgs, resp, meta) ==
    [cache_key |-> key,
     model |-> model,
     start |-> meta.start_time,
     end |-> meta.end_time,
     duration_ms |-> meta.duration_ms,
     request |-> [model |-> model,
                  messages |-> Dumps(_to_jsonable(_serialize_messages(msgs))),
                  kwargs |-> Dict(<<>>),
                  timestamp |-> meta.start_time],
     response |-> [timestamp |-> meta.end_time,
                   duration_ms |-> meta.duration_ms,
                   usage |-> Dumps(_to_jsonable(resp.usage)),
                   content |-> Dumps(_to_jsonable(resp.content)),
                   error |-> Dumps(_to_jsonable(resp.error))]]

\* path.write_text: creates the file, or truncates and rewrites an existing one
WriteText(fs, name, content) ==
    {f \in fs : f.name # name} \cup {[name |-> name, content |-> content]}

\* _write_markdown_log(self._log_dir_provider(), cache_key, self.model_name, req, resp, meta)
\* with outcome o: the provider is invoked; it raises, or returns the current
\* directory; then mkdir / write_text raise, or the file is written
LogPass(c, o, resp, meta, st) ==
    LET name == FileName(logDir, now, model_name, cache_key[c])
        content == Artifact(cache_key[c], model_name, messages[c], resp, meta)
    IN IF o = "provider_raises" THEN
            [st EXCEPT !.providerLog = Append(@, "raised"), !.raised = LogError(o)]
       ELSE IF o = "write_fails" THEN
            [st EXCEPT !.providerLog = Append(@, logDir), !.raised = LogError(o)]
       ELSE [st EXCEPT !.providerLog = Append(@, logDir),
                       !.files = WriteText(@, name, content),
                       !.writes = Append(@, [name |-> name, content |-> content]),
                       !.raised = NoOutcome]

\* the except branch of ainvoke for exception x raised in the try body:
\* an Exception is logged (outcome o) and re-raised; anything else propagates
ExceptBranch(c, x, o, st) ==
    IF ~Caught(x) THEN [st EXCEPT !.raised = x]
    ELSE LET meta == [start_time |-> start[c], end_time |-> now, duration_ms |-> <<>>]
             resp == [content |-> NoneVal, usage |-> NoneVal, error |-> ErrStr(x)]
             after == LogPass(c, o, resp, meta, st)
         IN IF after.raised = NoOutcome THEN [after EXCEPT !.raised = x] ELSE after

\* the try body of ainvoke after the inner client returned result r
TryBody(c, r, o, st) ==
    LET result == ResultChoices[r]
        meta == [start_time |-> start[c], end_time |-> now,
                 duration_ms |-> <<now - start[c]>>]
        usage == IF HasDump(result.usage) THEN ModelDump(result.usage) ELSE result.usage
        completion == IF HasDump(result.completion) THEN ModelDump(result.completion)
                      ELSE result.completion
        resp == [content |-> _to_jsonable(completion), usage |-> _to_jsonable(usage),
                 error |-> NoneVal]
    IN LogPass(c, o, resp, meta, st)

Fresh == [providerLog |-> <<>>, files |-> files, writes |-> <<>>, raised |-> NoOutcome]

Finish(c, inner, st, caller) ==
    /\ pc' = [pc EXCEPT ![c] = "done"]
    /\ innerOutcome' = [innerOutcome EXCEPT ![c] = inner]
    /\ callerOutcome' = [callerOutcome EXCEPT ![c] = caller]
    /\ providerLog' = [providerLog EXCEPT ![c] = st.providerLog]
    /\ writes' = [writes EXCEPT ![c] = st.writes]
    /\ files' = st.files
    /\ messages' = [messages EXCEPT ![c] = MessagesAfterSerialize(@)]
    /\ UNCHANGED <<given, innerArgs, start, cache_key, now, logDir>>

\* ----------------------------------------------------------------- actions
Init ==
    /\ pc = [c \in Calls |-> "idle"]
    /\ given = [c \in Calls |-> <<NoneVal, "none">>]
    /\ messages = [c \in Calls |-> NoneVal]
    /\ innerArgs = [c \in Calls |-> <<NoneVal, "none">>]
    /\ start = [c \in Calls |-> 0]
    /\ cache_key = [c \in Calls |-> 0]
    /\ innerOutcome = [c \in Calls |-> NoOutcome]
    /\ callerOutcome = [c \in Calls |-> NoOutcome]
    /\ providerLog = [c \in Calls |-> <<>>]
    /\ writes = [c \in Calls |-> <<>>]
    /\ files = {}
    /\ now = 0
    /\ logDir \in Dirs

\* ainvoke up to the await: start, req, cache_key, then the inner client is called
Call(c, m, f) ==
    /\ pc[c] = "idle"
    /\ \A b \in Calls : b < c => pc[b] # "idle"
    /\ pc' = [pc EXCEPT ![c] = "awaiting"]
    /\ given' = [given EXCEPT ![c] = <<m, f>>]
    /\ start' = [start EXCEPT ![c] = now]
    /\ cache_key' = [cache_key EXCEPT ![c] = _hash_request(model_name, m)]
    /\ messages' = [messages EXCEPT ![c] = MessagesAfterSerialize(m)]
    /\ innerArgs' = [innerArgs EXCEPT ![c] = <<messages'[c], f>>]
    /\ UNCHANGED <<innerOutcome, callerOutcome, providerLog, writes, files, now, logDir>>

\* the inner client returns result r; the log pass ends as o1 and, when it
\* raised, the log pass of the except branch ends as o2
InnerReturns(c, r, o1, o2) ==
    /\ pc[c] = "awaiting"
    /\ o1 = "ok" => o2 = "ok"
    /\ LET tried == TryBody(c, r, o1, Fresh)
           st == IF tried.raised = NoOutcome THEN tried
                 ELSE ExceptBranch(c, tried.raised, o2, tried)
       IN Finish(c, Outcome("ret", r), st,
                 IF st.raised = NoOutcome THEN Outcome("ret", r) ELSE st.raised)

\* the inner client raises Exception e; the log pass of the except branch ends as o
InnerRaises(c, e, o) ==
    /\ pc[c] = "awaiting"
    /\ LET st == ExceptBranch(c, Outcome("exc", e), o, Fresh)
       IN Finish(c, Outcome("exc", e), st, st.raised)

\* the await ends with CancelledError (the task is cancelled)
InnerCancelled(c, o) ==
    /\ pc[c] = "awaiting"
    /\ LET st == ExceptBranch(c, Outcome("cancel", 0), o, Fresh)
       IN Finish(c, Outcome("cancel", 0), st, st.raised)

\* a millisecond passes
Tick ==
    /\ now < MaxTime
    /\ now' = now + 1
    /\ UNCHANGED <<pc, given, messages, innerArgs, start, cache_key, innerOutcome,
                   callerOutcome, providerLog, writes, files, logDir>>

\* the active session changes: the provider returns another directory from now on
SwitchDir(d) ==
    /\ d # logDir
    /\ logDir' = d
    /\ UNCHANGED <<pc, given, messages, innerArgs, start, cache_key, innerOutcome,
                   callerOutcome, providerLog, writes, files, now>>

Next ==
    \/ \E c \in Calls, i \in 1..Len(RequestChoices) :
            Call(c, RequestChoices[i][1], RequestChoices[i][2])
    \/ \E c \in Calls, r \in 1..Len(ResultChoices), o1, o2 \in LogOutcomes :
            InnerReturns(c, r, o1, o2)
    \/ \E c \in Calls, e \in 1..Len(ErrorChoices), o \in LogOutcomes : InnerRaises(c, e, o)
    \/ \E c \in Calls : InnerCancelled(c, "ok")
    \/ Tick
    \/ \E d \in Dirs : SwitchDir(d)

Spec == Init /\ [][Next]_vars

\* ---------------------------------------------------------------- properties
Done(c) == pc[c] = "done"

\* the artifact call c wrote (a call writes at most one)
Written(c) == writes[c][1]

\* a mapping key "image_url" occurs somewhere in the tree
RECURSIVE HasImageKey(_)
HasImageKey(obj) ==
    IF obj.t = "dict" THEN
        \E i \in 1..Len(obj.v) : obj.v[i][1] = "image_url" \/ HasImageKey(obj.v[i][2])
    ELSE IF obj.t = "list" THEN \E i \in 1..Len(obj.v) : HasImageKey(obj.v[i])
    ELSE FALSE

\* what a request says, whatever the objects that say it and the order of
\* the fields of its mappings: addresses erased, mappings in key order
RECURSIVE FunctionalView(_)
FunctionalView(obj) ==
    IF obj.t = "dict" THEN
        LET s == SortPairs(obj.v)
        IN Dict([i \in 1..Len(s) |-> <<s[i][1], FunctionalView(s[i][2])>>])
    ELSE IF obj.t = "list" THEN List([i \in 1..Len(obj.v) |-> FunctionalView(obj.v[i])])
    ELSE IF obj.t = "obj" THEN Obj("", obj.v[2], FunctionalView(obj.v[3]))
    ELSE obj

\* two finished calls that both wrote and whose lifetimes overlap
Concurrent(c1, c2) ==
    /\ c1 # c2 /\ Done(c1) /\ Done(c2)
    /\ writes[c1] # <<>> /\ writes[c2] # <<>>
    /\ start[c1] <= Written(c2).content.end
    /\ start[c2] <= Written(c1).content.end

\* C1: a failure of the logging path never changes the outcome the caller
\* sees: the inner client's result R is returned, its error E is raised.
C1_LoggingFailureKeepsOutcome ==
    \A c \in Calls :
        Done(c) /\ innerOutcome[c].kind \in {"ret", "exc"}
            => callerOutcome[c] = innerOutcome[c]

\* C2: a call whose inner invocation raised E writes exactly one artifact,
\* with content null, usage null and error str(E), and raises E to the caller.
C2_FailingCallLoggedAndReraised ==
    \A c \in Calls :
        Done(c) /\ innerOutcome[c].kind = "exc"
            => /\ Len(writes[c]) = 1
               /\ Written(c).content.response.content = NoneVal
               /\ Written(c).content.response.usage = NoneVal
               /\ Written(c).content.response.error = Scalar(ErrorChoices[innerOutcome[c].val])
               /\ callerOutcome[c] = innerOutcome[c]

\* C3: a call whose inner invocation returned a result writes exactly one
\* artifact, with error null and the JSON-converted completion as content;
\* no artifact with an error is written for it.
C3_SuccessfulCallLogged ==
    \A c \in Calls :
        Done(c) /\ innerOutcome[c].kind = "ret"
            => /\ Len(writes[c]) = 1
               /\ Written(c).content.response.error = NoneVal
               /\ Written(c).content.response.content =
                      _to_jsonable(ResultChoices[innerOutcome[c].val].completion)

\* C4: two concurrent calls with distinct request content write to distinct
\* filenames, and afterwards both artifacts exist, each with its own record.
C4_ConcurrentCallsDistinctFiles ==
    \A c1, c2 \in Calls :
        Concurrent(c1, c2) /\ FunctionalView(given[c1][1]) # FunctionalView(given[c2][1])
            => /\ Written(c1).name # Written(c2).name
               /\ Written(c1) \in files
               /\ Written(c2) \in files

\* C5: an artifact, once written, keeps the content it was written with: no
\* step replaces, rewrites or deletes it.
C5_WrittenOnceNeverMutated == [][\A f \in files : f \in files']_vars

\* C6: no artifact has a key image_url at any depth of its request section
\* or of its response section.
C6_NoImagePayloadPersisted ==
    \A f \in files :
        /\ ~HasImageKey(f.content.request.messages)
        /\ ~HasImageKey(f.content.response.content)
        /\ ~HasImageKey(f.content.response.usage)

C8_ProviderInvokedOncePerCall ==
    \A c \in Calls :
        Done(c) /\ innerOutcome[c].kind \in {"ret", "exc"}
            => /\ Len(providerLog[c]) = 1
               /\ writes[c] # <<>> => Written(c).name.dir = providerLog[c][1]

\* C9: two requests that say the same (same model, roles, text, options) and
\* differ only in object identity or field order get the same fingerprint,
\* also when the messages are fingerprinted through str().
C9_IdenticalRequestsSameFingerprint ==
    \A c1, c2 \in Calls :
        /\ pc[c1] # "idle" /\ pc[c2] # "idle"
        /\ FunctionalView(given[c1][1]) = FunctionalView(given[c2][1])
        => cache_key[c1] = cache_key[c2]

\* C10: when the inner invocation ends with an exception that is no
\* Exception (cancellation), the provider is not invoked, nothing is
\* written for the call, and that exception reaches the caller.
C10_CancelledCallLeavesNoRecord ==
    \A c \in Calls :
        Done(c) /\ innerOutcome[c].kind = "cancel"
            => /\ providerLog[c] = <<>>
               /\ writes[c] = <<>>
               /\ callerOutcome[c] = innerOutcome[c]

\* a call was cancelled while another call's artifact is in the directory
C10_Witness ==
    \E c \in Calls :
        /\ Done(c) /\ innerOutcome[c].kind = "cancel"
        /\ callerOutcome[c].kind = "cancel"
        /\ files # {}

====
